---- MODULE Spec2Model ----
(***************************************************************************)
(* State-machine model of nanobot's Feishu channel adapter                 *)
(* (src/nanobot/channels/feishu.py) and of its MiniMax OAuth device-flow   *)
(* client (src/nanobot/oauth/minimax.py).                                  *)
(*                                                                         *)
(* SpecFeishu : the adapter - start/stop on the application loop, the      *)
(*              worker threads hosting the vendor client, the raw event    *)
(*              callback and the hand-off to the application loop.         *)
(* SpecSend   : the adapter's send() - the text message and the media      *)
(*              items, one vendor call after the other.                    *)
(* SpecOAuth  : get_minimax_access_token and the device-flow login it      *)
(*              falls back to, against a provider and a wall clock.        *)
(* SpecOAuthDisk : the same, with each write of the credential file taken  *)
(*              in its two steps, truncation and flush.                    *)
(* SpecLoginLive : one device-flow login under fairness, the provider free *)
(*              to answer "pending" for ever.                              *)
(***************************************************************************)
EXTENDS Integers, Sequences, FiniteSets, TLC

VARIABLES
    \* ---- FeishuChannel -------------------------------------------------
    app_configured,   \* config.app_id and config.app_secret are both set
    lark_installed,   \* "import lark_oapi" succeeds in this process
    running,          \* self._running
    api_client,       \* self._api_client is not None
    threads,          \* the worker threads start() has spawned, in order
    ready,            \* main_loop's FIFO of work submitted from other threads
    submitted,        \* history: every handle_message submission, in order
    started,          \* history: handle_message coroutines the loop started
    dropped,          \* history: events refused with "Unauthorized Feishu user"
    last_start,       \* history: what the latest start() call did and returned
    out,              \* the send() coroutine: where it stands and what it did
    \* ---- MiniMax OAuth ------------------------------------------------
    now,              \* time.time(), in ticks of 1/Second seconds
    token_file,       \* TOKEN_FILE: <<>> when absent, else <<token_data>>
    obtained_at,      \* history: when the stored credential was granted
    pc,               \* where the get_minimax_access_token coroutine stands
    call,             \* the current (or last) get_minimax_access_token call
    login,            \* the current (or last) login_minimax run
    prev,             \* history: how the call before `call` ended
    pkce,             \* generate_pkce() calls made so far
    grants,           \* token pairs the provider has granted so far
    disk              \* TOKEN_FILE as open(TOKEN_FILE, "w") leaves it on disk

\* The adapter without its send() coroutine.
adapter_vars == <<app_configured, lark_installed, running, api_client,
                  threads, ready, submitted, started, dropped, last_start>>

feishu_vars == <<adapter_vars, out>>

oauth_vars == <<now, token_file, obtained_at, pc, call, login, prev, pkce, grants,
                disk>>

vars == <<feishu_vars, oauth_vars>>

----------------------------------------------------------------------------
(* Bounds of the model.                                                    *)

MaxThreads == 2     \* worker threads spawned by successive start() calls
MaxEvents  == 2     \* raw events delivered over all connections
MaxCalls   == 2     \* get_minimax_access_token calls
MaxPolls   == 3     \* pending answers the provider gives to one login
MaxTime    == 40    \* seconds after which the idle clock is no longer advanced
MaxMedia   == 2     \* media items of one OutboundMessage
PollLatency == 1    \* seconds a poll takes to be answered, where it takes any

----------------------------------------------------------------------------
(* FeishuChannel: data.                                                    *)

AllowFrom == {"ou_alice"}

\* BaseChannel.is_allowed is supplied by configuration.
is_allowed(sender_id) == sender_id \in AllowFrom

\* msg.content: a string that json.loads rejects (Garbage) or a JSON object,
\* here with its text (a token sequence), the key the message type reads
\* (image_key for images, file_key otherwise) and file_name; "" is absent.
Json(text, key, file_name) ==
    [json |-> TRUE, text |-> text, key |-> key, file_name |-> file_name]
Garbage == [json |-> FALSE, text |-> <<>>, key |-> "", file_name |-> ""]
Raw(sender, msg_type, content) ==
    [sender |-> sender, msg_type |-> msg_type, content |-> content]

\* The raw events the vendor client delivers: from an allowed and from a
\* refused sender, with and without a resource to download, with a payload
\* json.loads rejects, and with a message type the callback does not know.
RawEvents ==
    { Raw("ou_alice",   "text",    Json(<<"@_all", "hello">>, "", "")),
      Raw("ou_alice",   "image",   Json(<<>>, "k1", "")),
      Raw("ou_alice",   "audio",   Garbage),
      Raw("ou_alice",   "sticker", Json(<<>>, "k1", "")),
      Raw("ou_mallory", "text",    Json(<<"hello">>, "", "")),
      Raw("ou_mallory", "file",    Json(<<>>, "k1", "a.txt")),
      Raw("ou_mallory", "media",   Garbage) }

NoEvent == [seq |-> 0]

\* feishu.py 194-207: the resource type the message type selects, "" for none.
ResourceType(msg_type) ==
    CASE msg_type = "image" -> "image"
      [] msg_type = "file"  -> "file"
      [] msg_type = "media" -> "media"
      [] msg_type = "audio" -> "file"
      [] OTHER              -> ""

\* feishu.py 199, 203: only file and media messages read file_name.
FileName(msg_type, c) ==
    IF msg_type \in {"file", "media"} THEN c.file_name ELSE ""

\* feishu.py 184-218 up to the download: the callback's locals after parsing.
ParseEvent(n, e) ==
    IF ~e.content.json
    THEN [seq |-> n, sender |-> e.sender, msg_type |-> e.msg_type,
          text |-> <<"raw content">>, media |-> <<>>,
          file_key |-> "", file_name |-> "", resource_type |-> ""]
    ELSE [seq |-> n, sender |-> e.sender, msg_type |-> e.msg_type,
          text |-> e.content.text, media |-> <<>>,
          file_key |-> IF ResourceType(e.msg_type) = "" THEN "" ELSE e.content.key,
          file_name |-> FileName(e.msg_type, e.content),
          resource_type |-> ResourceType(e.msg_type)]

\* feishu.py 209: a download is made only with a key and a resource type.
NeedsDownload(cur) == cur.file_key # "" /\ cur.resource_type # ""

\* feishu.py 40-47: the local path _download_file writes.
DownloadPath(cur) ==
    IF cur.file_name # "" THEN <<"nanobot_downloads", cur.file_name>>
    ELSE IF cur.resource_type = "image"
         THEN <<"nanobot_downloads", cur.file_key, ".jpg">>
         ELSE <<"nanobot_downloads", cur.file_key>>

\* feishu.py 210-214: the callback's locals after the download returned.
AfterDownload(cur, ok) ==
    IF ~ok THEN cur
    ELSE [cur EXCEPT
            !.media = Append(cur.media, DownloadPath(cur)),
            !.text  = IF cur.text = <<>>
                      THEN <<"[", cur.msg_type, "]",
                             IF cur.file_name # "" THEN cur.file_name ELSE "file">>
                      ELSE cur.text]

\* feishu.py 221-222: text.replace("@_all", "").strip()
StripMention(text) == SelectSeq(text, LAMBDA tok : tok # "@_all")

\* feishu.py 229: the guard of the forwarding branch.
\* (mutant: the allow-list is not consulted)
ForwardedUnchecked(cur) == TRUE
Forwarded(cur) == is_allowed(cur.sender)

\* feishu.py 230-247: the handle_message call built for the event.
HandleCall(conn, cur) ==
    [conn |-> conn, seq |-> cur.seq, sender_id |-> cur.sender,
     content |-> StripMention(cur.text), media |-> cur.media,
     msg_type |-> cur.msg_type]

\* feishu.py 238-247: run_coroutine_threadsafe appends to the loop's queue.
\* (mutant: the work is put ahead of what is already queued)
SubmitFront(q, work) == <<work>> \o q
Submit(q, work) == Append(q, work)

----------------------------------------------------------------------------
(* FeishuChannel: operations.                                              *)

TotalFired ==
    LET RECURSIVE Sum(_)
        Sum(i) == IF i = 0 THEN 0 ELSE threads[i].fired + Sum(i - 1)
    IN Sum(Len(threads))

\* Mutant of NewThread: start() hands back a thread that has connected.
NewThreadConnected == [pc |-> "connected", fired |-> 0, cur |-> NoEvent]

\* feishu.py 277-278: the thread start() launches, run_client not yet begun.
NewThread == [pc |-> "init", fired |-> 0, cur |-> NoEvent]

\* No start() call has returned.  `ok` counts the calls that returned True;
\* `spawned` and `waited` tell how many threads the latest call launched
\* and whether its thread had left run_client's first line on return.
NoStart == [returned |-> "none", ok |-> 0, spawned |-> 0, waited |-> FALSE]

\* Mutant of configured: start() goes on without credentials.
configured_unchecked == TRUE

\* feishu.py 140: app_id and app_secret are both set.
configured == app_configured

\* feishu.py 138-280: start().
Start ==
    /\ IF ~configured \/ ~lark_installed
       THEN /\ last_start' = [returned |-> "False", ok |-> last_start.ok,
                              spawned |-> 0, waited |-> FALSE]
            /\ UNCHANGED <<running, api_client, threads>>
       ELSE /\ Len(threads) < MaxThreads
            /\ api_client' = TRUE
            /\ running' = TRUE
            /\ threads' = Append(threads, NewThread)
            /\ last_start' = [returned |-> "True",
                              ok |-> last_start.ok + 1,
                              spawned |-> Len(threads') - Len(threads),
                              waited |-> threads'[Len(threads')].pc # "init"]
    /\ UNCHANGED <<out, oauth_vars>>
    /\ UNCHANGED <<app_configured, lark_installed, ready, submitted,
                   started, dropped>>

\* feishu.py 282-288: stop().
Stop ==
    /\ running' = FALSE
    /\ UNCHANGED <<last_start, out, oauth_vars>>
    /\ UNCHANGED <<app_configured, lark_installed, api_client, threads,
                   ready, submitted, started, dropped>>

\* feishu.py 160-270: the thread installs its loop, builds the handler and
\* the ws client and enters the blocking client.start(). (The ImportError
\* branch at 169-172 cannot be taken: start() imported lark_oapi already.)
ThreadConnect(i) ==
    /\ threads[i].pc = "init"
    /\ threads' = [threads EXCEPT ![i].pc = "connected"]
    /\ UNCHANGED <<last_start, out, oauth_vars>>
    /\ UNCHANGED <<app_configured, lark_installed, running, api_client,
                   ready, submitted, started, dropped>>

\* Mutant of ThreadFail: the exception ends the thread uncaught.
ThreadFailUncaught(i) ==
    /\ threads[i].pc \in {"init", "connected"}
    /\ threads' = [threads EXCEPT ![i].pc = "exited"]
    /\ UNCHANGED <<last_start, out, oauth_vars>>
    /\ UNCHANGED <<app_configured, lark_installed, running, api_client,
                   ready, submitted, started, dropped>>

\* feishu.py 271-274: an exception in the thread body ends the thread.
ThreadFail(i) ==
    /\ threads[i].pc \in {"init", "connected"}
    /\ threads' = [threads EXCEPT ![i].pc = "exited"]
    /\ running' = FALSE
    /\ UNCHANGED <<last_start, out, oauth_vars>>
    /\ UNCHANGED <<app_configured, lark_installed, api_client,
                   ready, submitted, started, dropped>>

\* feishu.py 176-209: the vendor client fires the callback for a raw event;
\* the callback parses it and, when it names a resource, enters the download.
CallbackBegin(i, e) ==
    /\ threads[i].pc = "connected"
    /\ TotalFired < MaxEvents
    /\ LET cur == ParseEvent(threads[i].fired + 1, e)
       IN threads' = [threads EXCEPT
                        ![i].fired = @ + 1,
                        ![i].cur = cur,
                        ![i].pc = IF NeedsDownload(cur) THEN "download"
                                  ELSE "dispatch"]
    /\ UNCHANGED <<last_start, out, oauth_vars>>
    /\ UNCHANGED <<app_configured, lark_installed, running, api_client,
                   ready, submitted, started, dropped>>

\* feishu.py 210-214 (and 27-69): the blocking download returns, with a path
\* or with None.
CallbackDownload(i, ok) ==
    /\ threads[i].pc = "download"
    /\ threads' = [threads EXCEPT
                     ![i].cur = AfterDownload(@, ok),
                     ![i].pc = "dispatch"]
    /\ UNCHANGED <<last_start, out, oauth_vars>>
    /\ UNCHANGED <<app_configured, lark_installed, running, api_client,
                   ready, submitted, started, dropped>>

\* feishu.py 220-249: mention stripping, the allow-list check and the
\* submission to the application loop; the callback then returns.
CallbackDispatch(i) ==
    /\ threads[i].pc = "dispatch"
    /\ LET cur == threads[i].cur
       IN IF Forwarded(cur)
          THEN /\ ready' = Submit(ready, HandleCall(i, cur))
               /\ submitted' = Append(submitted, HandleCall(i, cur))
               /\ UNCHANGED dropped
          ELSE /\ dropped' = dropped \cup
                     {[conn |-> i, seq |-> cur.seq, sender_id |-> cur.sender,
                       downloaded |-> cur.media # <<>>]}
               /\ UNCHANGED <<ready, submitted>>
    /\ threads' = [threads EXCEPT ![i].pc = "connected", ![i].cur = NoEvent]
    /\ UNCHANGED <<last_start, out, oauth_vars>>
    /\ UNCHANGED <<app_configured, lark_installed, running, api_client, started>>

\* feishu.py 238-247: the application loop runs the oldest submitted callback,
\* which creates the handle_message task and starts it.
LoopRunNext ==
    /\ ready # <<>>
    /\ started' = Append(started, Head(ready))
    /\ ready' = Tail(ready)
    /\ UNCHANGED <<last_start, out, oauth_vars>>
    /\ UNCHANGED <<app_configured, lark_installed, running, api_client,
                   threads, submitted, dropped>>

----------------------------------------------------------------------------
(* FeishuChannel.send: data.                                               *)
(*                                                                         *)
(* A media entry that is a str is kept as its parts between the dots; an   *)
(* entry that is no str (a Path, None) is kept as such.                    *)

Path(parts) == [str |-> TRUE, parts |-> parts]
NotAStr == [str |-> FALSE, parts |-> <<>>]

MediaItems ==
    { Path(<<"a", "PNG">>), Path(<<"report", "pdf">>), Path(<<"notes">>),
      NotAStr }

SeqsUpTo(S, n) == UNION { [1..k -> S] : k \in 0..n }

\* OutboundMessage: content and media (chat_id plays no part here).
OutboundMessages ==
    [content : {"", "hi"}, media : SeqsUpTo(MediaItems, MaxMedia)]

\* str.lower() on the extensions in use.
Lower(x) == CASE x = "PNG" -> "png" [] OTHER -> x

\* feishu.py 336: the text after the last dot, lowered; "" without a dot.
ext(file_path) ==
    IF Len(file_path.parts) > 1
    THEN Lower(file_path.parts[Len(file_path.parts)])
    ELSE ""

\* feishu.py 337.
msg_type(file_path) ==
    IF ext(file_path) \in {"jpg", "jpeg", "png", "gif"} THEN "image" ELSE "file"

\* feishu.py 342, 348 -> 92, 127: the vendor call that uploads the item.
upload_op(file_path) ==
    IF msg_type(file_path) = "image" THEN "image.create" ELSE "file.create"

\* Mutant of HasText: the text message is sent whatever the content.
HasTextAlways(msg) == TRUE

\* feishu.py 305: `if msg.content:`.
HasText(msg) == msg.content # ""

\* Mutant of iter_index: the media list is walked from its end.
iter_index_reversed(media, k) == Len(media) + 1 - k

\* feishu.py 333: `for file_path in msg.media` - the index in msg.media of
\* the k-th item the loop takes.
iter_index(media, k) == k

\* A vendor call handed to a worker thread, and its return to send().
Started(op, item) == [ev |-> "start", op |-> op, item |-> item, result |-> ""]
Ended(op, item, result) ==
    [ev |-> "end", op |-> op, item |-> item, result |-> result]

\* send() is not running and has not run.
NoSend ==
    [pc |-> "idle", msg |-> [content |-> "", media |-> <<>>], client |-> FALSE,
     k |-> 0, attempted |-> <<>>, log |-> <<>>, raised |-> FALSE]

\* feishu.py 332-333 and the end of the loop body: on to the next media
\* item, or out of send() when there is none.
NextItem(o) ==
    IF o.k < Len(o.msg.media)
    THEN [o EXCEPT !.pc = "item", !.k = @ + 1]
    ELSE [o EXCEPT !.pc = "done"]

\* Mutant of ItemFailed: the failure of one item ends send() with the
\* exception.
ItemFailedAborts(o) == [o EXCEPT !.pc = "done", !.raised = TRUE]

\* feishu.py 343-345, 349-351 (`continue`), 370-371 and 375-376 (the
\* failure is logged): the loop goes on with the next item.
ItemFailed(o) == NextItem(o)

----------------------------------------------------------------------------
(* FeishuChannel.send: operations.  One send() call is followed from its   *)
(* first line to its return, each step ending at an await; send() keeps    *)
(* nothing from one call to the next (it reads self._api_client only), so  *)
(* a later call goes through the same steps.                               *)

\* feishu.py 290-322: send() up to its first await.
SendBegin(msg) ==
    /\ out.pc = "idle"
    /\ LET o == [NoSend EXCEPT !.msg = msg, !.client = api_client]
       IN out' = IF ~api_client
                 THEN [o EXCEPT !.pc = "done"]
                 ELSE IF HasText(msg)
                 THEN [o EXCEPT !.pc = "text",
                                !.log = <<Started("message.create", 0)>>]
                 ELSE NextItem(o)
    /\ UNCHANGED <<adapter_vars, oauth_vars>>

\* feishu.py 322-329: the text message.create returns to send(): success,
\* a non-success response, or an exception; the last two are logged.
TextReturns(result) ==
    /\ out.pc = "text"
    /\ out' = NextItem([out EXCEPT
                  !.log = Append(@, Ended("message.create", 0, result))])
    /\ UNCHANGED <<adapter_vars, oauth_vars>>

\* feishu.py 334-348, 79-81, 111-113: the loop body up to its first await.
\* An entry that is no str raises at 336; a file that is not there makes
\* the upload function return None without a vendor call.
MediaItemBegin(present) ==
    /\ out.pc = "item"
    /\ LET item == iter_index(out.msg.media, out.k)
           file_path == out.msg.media[item]
           o == [out EXCEPT !.attempted = Append(@, item)]
       IN out' = IF ~file_path.str \/ ~present
                 THEN ItemFailed(o)
                 ELSE [o EXCEPT
                         !.pc = "upload",
                         !.log = Append(@, Started(upload_op(file_path), item))]
    /\ UNCHANGED <<adapter_vars, oauth_vars>>

\* feishu.py 92-101, 127-136, 342-368: the upload returns a key, a
\* non-success response or an exception (both None to send()); with a key
\* the media message.create is handed to the executor.
UploadReturns(result) ==
    /\ out.pc = "upload"
    /\ LET item == iter_index(out.msg.media, out.k)
           file_path == out.msg.media[item]
           o == [out EXCEPT
                   !.log = Append(@, Ended(upload_op(file_path), item, result))]
       IN out' = IF result = "success"
                 THEN [o EXCEPT
                         !.pc = "create",
                         !.log = Append(@, Started("message.create", item))]
                 ELSE ItemFailed(o)
    /\ UNCHANGED <<adapter_vars, oauth_vars>>

\* feishu.py 368-376: the media message.create returns.
CreateReturns(result) ==
    /\ out.pc = "create"
    /\ LET item == iter_index(out.msg.media, out.k)
           o == [out EXCEPT
                   !.log = Append(@, Ended("message.create", item, result))]
       IN out' = IF result = "success" THEN NextItem(o) ELSE ItemFailed(o)
    /\ UNCHANGED <<adapter_vars, oauth_vars>>

\* What a vendor call can come back with.
Results == {"success", "refused", "raised"}

----------------------------------------------------------------------------
(* MiniMax OAuth: data.                                                    *)

\* Ticks per second. min(interval * 1.5, 10) halves the unit once per pending
\* answer, so MaxPolls halvings keep every interval a whole number of ticks.
Second == 2 ^ MaxPolls

Skew             == 60     \* is_expired: expires_at - 60
MaxInterval      == 10     \* min(poll_interval * 1.5, 10)
DefaultExpiresIn == 300    \* oauth.get("expires_in", 300)
DefaultInterval  == 2      \* oauth.get("interval", 2)

Min(a, b) == IF a <= b THEN a ELSE b
Max(a, b) == IF a >= b THEN a ELSE b
Last(s) == s[Len(s)]

\* dict.get(key, default) on an optional value: <<>> is a missing key.
Get(opt, default) == IF opt = <<>> THEN default ELSE opt[1]

\* What the provider may answer (whole seconds).
Lifetimes    == {30, 90}          \* expired_in of a granted token
ExpiresInOpt == {<<>>, <<6>>}     \* expires_in of /oauth/code, or none
IntervalOpt  == {<<>>, <<0>>, <<8>>, <<12>>}   \* interval of /oauth/code, or none
TickStep     == 20                \* seconds the idle clock advances at a time

Access(k)  == <<"access", k>>
Refresh(k) == <<"refresh", k>>

\* minimax.py 31-35: the k-th generate_pkce() result; sha256 is injective here.
Sha256(verifier) == <<"sha256", verifier>>
generate_pkce(k) ==
    [verifier |-> <<"verifier", k>>, challenge |-> Sha256(<<"verifier", k>>)]

\* minimax.py 130-134: MiniMaxOAuthToken.__init__ at time t.
MiniMaxOAuthToken(token_data, t) ==
    [access |-> token_data.access, refresh |-> token_data.refresh,
     expires |-> token_data.expires,
     expires_at |-> t + token_data.expires * Second]

\* minimax.py 136-137: MiniMaxOAuthToken.is_expired at time t.
\* (mutant: every stored token counts as expired)
is_expired_always(token, t) == TRUE
is_expired(token, t) == t >= token.expires_at - Skew * Second

\* minimax.py 106: min(poll_interval * 1.5, 10), in ticks.
\* (mutant: the cap is missing)
backoff_uncapped(poll_interval) == (3 * poll_interval) \div 2
backoff(poll_interval) ==
    IF 3 * poll_interval >= 2 * MaxInterval * Second
    THEN MaxInterval * Second
    ELSE (3 * poll_interval) \div 2

\* minimax.py 96, 104: how the loop reads result.get("status").
\* (mutant: an error answer is taken for a pending one)
poll_status_error_ignored(status) ==
    IF status = "success" THEN "success" ELSE "pending"
poll_status(status) ==
    CASE status = "success" -> "success"
      [] status = "error"   -> "error"
      [] OTHER              -> "pending"

\* minimax.py 98-103: the dict login_minimax returns.
login_result(result, region) ==
    [access |-> result.access_token, refresh |-> result.refresh_token,
     expires |-> result.expired_in, region |-> region]

\* minimax.py 150-152: token_data after a refresh answer was copied into it.
\* (mutant: the new refresh token is not copied)
refreshed_keeps_refresh(token_data, result) ==
    [token_data EXCEPT !.access = result.access_token,
                       !.expires = result.expired_in]
refreshed(token_data, result) ==
    [token_data EXCEPT !.access = result.access_token,
                       !.refresh = result.refresh_token,
                       !.expires = result.expired_in]

\* minimax.py 149: token_data.get("region", "cn"); "" is a missing key.
region_of(token_data) == IF token_data.region = "" THEN "cn" ELSE token_data.region

NoCall ==
    [n |-> 0, force |-> FALSE, at |-> 0, file_before |-> <<>>,
     obtained_before |-> 0, refreshes |-> 0, refresh_sent |-> <<>>,
     refresh_result |-> "none", refresh_resp |-> <<>>, logins |-> 0,
     requests |-> 0, outcome |-> "none", returned |-> <<>>, error |-> <<>>]

NoLogin ==
    [outcome |-> "none", region |-> "", challenge |-> <<>>, verifier |-> <<>>,
     start |-> 0, expire_time |-> 0, poll_interval |-> 0, polls |-> 0,
     sleeps |-> <<>>, poll_times |-> <<>>, responses |-> <<>>,
     last |-> <<>>, result |-> <<>>, error |-> <<>>]

NoPrev == [outcome |-> "none", force |-> FALSE, returned |-> <<>>]

\* The credential files a process may find at start: none, or one written by
\* an earlier login at time 0 (region "" is a file without the region key).
\* TOKEN_FILE is not open: what exists of it is a whole JSON document.
\* `truncated`: the file exists with no bytes in it; `buffered`: the
\* token_data json.dump holds in the buffer of the open file.
NoDisk == [truncated |-> FALSE, buffered |-> <<>>]

\* minimax.py 141: os.path.exists(TOKEN_FILE).
exists(file, d) == file # <<>> \/ d.truncated

StoredFile(k, expires, region) ==
    [access |-> Access(k), refresh |-> Refresh(k), expires |-> expires,
     region |-> region]
InitialFiles ==
    { <<>>,
      <<StoredFile(0, 90, "cn")>>,
      <<StoredFile(0, 30, "global")>>,
      <<StoredFile(0, 30, "")>> }

----------------------------------------------------------------------------
(* MiniMax OAuth: operations.                                              *)
(*                                                                         *)
(* `response.ok` (minimax.py 59, 124) is read as the HTTP success flag of  *)
(* the answer; any exception raised inside refresh_access_token or         *)
(* request_oauth_code, whatever its cause, is RefreshFails / LoginCodeFails.*)
(* Network calls take no time; sleeps and the idle clock advance `now`.    *)

\* minimax.py 81-84 and 42-58: login_minimax(region) starts and
\* request_oauth_code posts the challenge of a fresh PKCE pair.
BeginLogin(region) ==
    /\ pc' = "login_code"
    /\ pkce' = pkce + 1
    /\ login' = [NoLogin EXCEPT !.outcome = "code", !.region = region,
                                !.challenge = <<generate_pkce(pkce + 1).challenge>>]

\* minimax.py 140-149, 159: get_minimax_access_token up to its first await.
GetAccessToken(force_refresh) ==
    /\ pc = "idle"
    /\ call.n < MaxCalls
    /\ prev' = [outcome |-> call.outcome, force |-> call.force,
                returned |-> call.returned]
    /\ LET c == [NoCall EXCEPT !.n = call.n + 1, !.force = force_refresh,
                               !.at = now, !.file_before = token_file,
                               !.obtained_before = obtained_at]
       IN IF exists(token_file, disk) /\ ~force_refresh
          THEN LET token_data == token_file[1]
                   token == MiniMaxOAuthToken(token_data, now)
               IN IF disk.truncated
                  THEN \* 143-144: json.load of an empty file raises
                       /\ call' = [c EXCEPT !.outcome = "raised",
                                            !.error = <<"JSONDecodeError">>]
                       /\ UNCHANGED <<pc, login, pkce>>
                  ELSE IF ~is_expired(token, now)
                  THEN /\ call' = [c EXCEPT !.outcome = "returned",
                                            !.returned = <<token.access>>]
                       /\ UNCHANGED <<pc, login, pkce>>
                  ELSE /\ call' = [c EXCEPT
                              !.outcome = "running",
                              !.refreshes = 1, !.requests = 1,
                              !.refresh_sent =
                                  <<[refresh_token |-> token.refresh,
                                     region |-> region_of(token_data)]>>]
                       /\ pc' = "refresh"
                       /\ UNCHANGED <<login, pkce>>
          ELSE /\ call' = [c EXCEPT !.outcome = "running", !.logins = 1,
                                    !.requests = 1]
               /\ BeginLogin("cn")
    /\ UNCHANGED <<now, token_file, obtained_at, grants>>
    /\ UNCHANGED <<disk, feishu_vars>>

\* minimax.py 149-152: the refresh answer is a token pair, copied into
\* token_data.
RefreshAnswer(expired_in) ==
    [access_token |-> Access(grants + 1),
     refresh_token |-> Refresh(grants + 1),
     expired_in |-> expired_in]

\* minimax.py 111-126, 149-155: the refresh answer is a token pair; it is
\* copied into token_data, written to TOKEN_FILE and its access returned.
RefreshSucceeds(expired_in) ==
    /\ pc = "refresh"
    /\ LET result == RefreshAnswer(expired_in)
           token_data == refreshed(call.file_before[1], result)
       IN /\ token_file' = <<token_data>>
          /\ call' = [call EXCEPT !.refresh_result = "ok",
                                  !.refresh_resp = <<result>>,
                                  !.outcome = "returned",
                                  !.returned = <<token_data.access>>]
    /\ obtained_at' = now
    /\ grants' = grants + 1
    /\ pc' = "idle"
    /\ disk' = NoDisk
    /\ UNCHANGED <<now, login, prev, pkce>>
    /\ UNCHANGED feishu_vars

\* Mutants of RefreshFails: the failure reaches the caller; the refresh is
\* sent again.
RefreshFailsAndRaises ==
    /\ pc = "refresh"
    /\ call' = [call EXCEPT !.refresh_result = "failed", !.outcome = "raised",
                            !.error = <<"Token refresh failed">>]
    /\ pc' = "idle"
    /\ UNCHANGED <<now, token_file, obtained_at, login, prev, pkce, grants>>
    /\ UNCHANGED <<disk, feishu_vars>>

RefreshFailsAndRetries ==
    /\ pc = "refresh"
    /\ IF call.refreshes < 2
       THEN /\ call' = [call EXCEPT !.refreshes = @ + 1, !.requests = @ + 1]
            /\ UNCHANGED <<pc, login, pkce>>
       ELSE /\ call' = [call EXCEPT !.refresh_result = "failed",
                                    !.logins = @ + 1, !.requests = @ + 1]
            /\ BeginLogin("cn")
    /\ UNCHANGED <<now, token_file, obtained_at, prev, grants>>
    /\ UNCHANGED <<disk, feishu_vars>>

\* minimax.py 124-125 or 150-152, then 156-159: the refresh call raises (a
\* non-ok answer, or an answer missing a key); the exception is printed and
\* the call goes on to login_minimax().
RefreshFails ==
    /\ pc = "refresh"
    /\ call' = [call EXCEPT !.refresh_result = "failed",
                            !.logins = @ + 1, !.requests = @ + 1]
    /\ BeginLogin("cn")
    /\ UNCHANGED <<now, token_file, obtained_at, prev, grants>>
    /\ UNCHANGED <<disk, feishu_vars>>

\* minimax.py 59-60: /oauth/code answers not-ok; the exception leaves
\* login_minimax and get_minimax_access_token.
LoginCodeFails ==
    /\ pc = "login_code"
    /\ login' = [login EXCEPT !.outcome = "code_failed",
                              !.error = <<"OAuth code request failed">>]
    /\ call' = [call EXCEPT !.outcome = "raised",
                            !.error = <<"OAuth code request failed">>]
    /\ pc' = "idle"
    /\ UNCHANGED <<now, token_file, obtained_at, prev, pkce, grants>>
    /\ UNCHANGED <<disk, feishu_vars>>

\* minimax.py 61, 84-90: /oauth/code answers; login_minimax draws its own
\* verifier and fixes the deadline and the first interval.
LoginCodeArrives(expires_in, interval) ==
    /\ pc = "login_code"
    /\ login' = [login EXCEPT
           !.outcome = "polling",
           !.verifier = <<generate_pkce(pkce + 1).verifier>>,
           !.start = now,
           !.expire_time = now + Get(expires_in, DefaultExpiresIn) * Second,
           !.poll_interval = Get(interval, DefaultInterval) * Second]
    /\ pkce' = pkce + 1
    /\ pc' = "poll"
    /\ UNCHANGED <<now, token_file, obtained_at, call, prev, grants>>
    /\ UNCHANGED <<disk, feishu_vars>>

\* minimax.py 92: the test of the poll loop.
loop_test(t, expire_time) == t < expire_time

\* minimax.py 93-106 (and 160-162 on success): the body of the poll loop -
\* sleep, poll, and act on the answer, which arrives `latency` ticks after
\* the poll was sent.  With `atomic` the write of TOKEN_FILE at 160-161 is
\* one step; without it the step ends when open(TOKEN_FILE, "w") has
\* truncated the file.
PollPass(status, expired_in, latency, atomic) ==
    /\ pc = "poll"
    /\ LET t == now + Max(login.poll_interval, 0)
           result ==
               CASE status = "success" ->
                        [status |-> status,
                         access_token |-> Access(grants + 1),
                         refresh_token |-> Refresh(grants + 1),
                         expired_in |-> expired_in]
                 [] status = "error" ->
                        [status |-> status, message |-> "access_denied"]
                 [] OTHER -> [status |-> status]
           polled == [login EXCEPT
                        !.polls = @ + 1,
                        !.sleeps = Append(@, login.poll_interval),
                        !.poll_times = Append(@, t),
                        !.responses = Append(@, status),
                        !.last = <<result>>]
       IN /\ now' = t + latency
          /\ CASE poll_status(status) = "success" ->
                    LET token_data == login_result(result, login.region)
                    IN /\ login' = [polled EXCEPT !.outcome = "success",
                                                  !.result = <<token_data>>]
                       /\ obtained_at' = t + latency
                       /\ grants' = grants + 1
                       /\ IF atomic
                          THEN /\ token_file' = <<token_data>>
                               /\ disk' = NoDisk
                               /\ call' = [call EXCEPT
                                             !.requests = @ + 1,
                                             !.outcome = "returned",
                                             !.returned = <<token_data.access>>]
                               /\ pc' = "idle"
                          ELSE /\ token_file' = <<>>
                               /\ disk' = [truncated |-> TRUE,
                                           buffered |-> <<token_data>>]
                               /\ call' = [call EXCEPT !.requests = @ + 1]
                               /\ pc' = "write_login"
               [] poll_status(status) = "error" ->
                    /\ login' = [polled EXCEPT
                                   !.outcome = "error",
                                   !.error = <<"OAuth failed", result.message>>]
                    /\ call' = [call EXCEPT
                                  !.requests = @ + 1,
                                  !.outcome = "raised",
                                  !.error = <<"OAuth failed", result.message>>]
                    /\ pc' = "idle"
                    /\ UNCHANGED <<token_file, obtained_at, grants, disk>>
               [] OTHER ->
                    /\ login' = [polled EXCEPT
                                   !.poll_interval = backoff(login.poll_interval)]
                    /\ call' = [call EXCEPT !.requests = @ + 1]
                    /\ UNCHANGED <<pc, token_file, obtained_at, grants, disk>>
    /\ UNCHANGED <<prev, pkce>>
    /\ UNCHANGED feishu_vars

\* minimax.py 92-106: one pass of the poll loop, the provider answering at
\* once and at most MaxPolls times "pending".
PollOnce(status, expired_in) ==
    /\ loop_test(now, login.expire_time)
    /\ poll_status(status) = "pending" => login.polls < MaxPolls
    /\ PollPass(status, expired_in, 0, TRUE)

\* minimax.py 92-106: one pass of the poll loop, the provider taking
\* PollLatency seconds to answer and answering "pending" as often as it
\* likes.
PollOnceLate(status, expired_in) ==
    /\ loop_test(now, login.expire_time)
    /\ PollPass(status, expired_in, PollLatency * Second, TRUE)

\* Mutant of LoginTimeout: the loop has no way out at the deadline.
LoginTimeoutNever ==
    /\ FALSE
    /\ UNCHANGED vars

\* minimax.py 92, 108: the deadline has passed at the loop test.
LoginTimeout ==
    /\ pc = "poll"
    /\ ~loop_test(now, login.expire_time)
    /\ login' = [login EXCEPT !.outcome = "timeout",
                              !.error = <<"OAuth timeout">>]
    /\ call' = [call EXCEPT !.outcome = "raised", !.error = <<"OAuth timeout">>]
    /\ pc' = "idle"
    /\ UNCHANGED <<now, token_file, obtained_at, prev, pkce, grants>>
    /\ UNCHANGED <<disk, feishu_vars>>

\* The wall clock advances between calls.
Tick ==
    /\ pc = "idle"
    /\ now < MaxTime * Second
    /\ now' = now + TickStep * Second
    /\ UNCHANGED <<token_file, obtained_at, pc, call, login, prev, pkce, grants>>
    /\ UNCHANGED <<disk, feishu_vars>>

----------------------------------------------------------------------------
(* MiniMax OAuth: the two writes of TOKEN_FILE, step by step.              *)
(*                                                                         *)
(* `with open(TOKEN_FILE, "w") as f: json.dump(token_data, f)` first       *)
(* truncates the file in place, then fills the buffer of f, and puts the   *)
(* bytes on disk when the with-block closes f.  Between the two steps      *)
(* other processes, and this one if the second step never happens, find a  *)
(* file that exists and is empty.                                          *)

\* minimax.py 149-153: the refresh answer is copied into token_data and
\* TOKEN_FILE is opened for writing.
RefreshOpensFile(expired_in) ==
    /\ pc = "refresh"
    /\ LET result == RefreshAnswer(expired_in)
           token_data == refreshed(call.file_before[1], result)
       IN /\ disk' = [truncated |-> TRUE, buffered |-> <<token_data>>]
          /\ call' = [call EXCEPT !.refresh_result = "ok",
                                  !.refresh_resp = <<result>>]
    /\ token_file' = <<>>
    /\ obtained_at' = now
    /\ grants' = grants + 1
    /\ pc' = "write_refresh"
    /\ UNCHANGED <<now, login, prev, pkce>>
    /\ UNCHANGED feishu_vars

\* minimax.py 92-104, 159-160: a poll answers "success", login_minimax
\* returns and TOKEN_FILE is opened for writing.
PollOpensFile(expired_in) ==
    /\ loop_test(now, login.expire_time)
    /\ PollPass("success", expired_in, 0, FALSE)

\* minimax.py 154-155 and 161-162: json.dump returns, the with-block closes
\* the file and the access token is returned.
WriteCloses ==
    /\ pc \in {"write_refresh", "write_login"}
    /\ token_file' = disk.buffered
    /\ disk' = NoDisk
    /\ call' = [call EXCEPT !.outcome = "returned",
                            !.returned = <<disk.buffered[1].access>>]
    /\ pc' = "idle"
    /\ UNCHANGED <<now, obtained_at, login, prev, pkce, grants>>
    /\ UNCHANGED feishu_vars

\* minimax.py 154 and 161: json.dump or the closing flush raises (OSError:
\* no space left, quota, I/O error).  Inside the try of 148-157 the
\* exception is printed and the call goes on to login_minimax(); at 160-161
\* it leaves get_minimax_access_token.
WriteFails ==
    /\ pc \in {"write_refresh", "write_login"}
    /\ disk' = [truncated |-> TRUE, buffered |-> <<>>]
    /\ IF pc = "write_refresh"
       THEN /\ call' = [call EXCEPT !.refresh_result = "write_failed",
                                    !.logins = @ + 1, !.requests = @ + 1]
            /\ BeginLogin("cn")
       ELSE /\ call' = [call EXCEPT !.outcome = "raised",
                                    !.error = <<"OSError">>]
            /\ pc' = "idle"
            /\ UNCHANGED <<login, pkce>>
    /\ UNCHANGED <<now, token_file, obtained_at, prev, grants>>
    /\ UNCHANGED feishu_vars

\* minimax.py 153-154 and 160-161: the process is killed (or the machine
\* stops) while TOKEN_FILE is open; the next call is made by a new process.
ProcessKilled ==
    /\ pc \in {"write_refresh", "write_login"}
    /\ disk' = [truncated |-> TRUE, buffered |-> <<>>]
    /\ call' = [call EXCEPT !.outcome = "killed"]
    /\ pc' = "idle"
    /\ UNCHANGED <<now, token_file, obtained_at, login, prev, pkce, grants>>
    /\ UNCHANGED feishu_vars

----------------------------------------------------------------------------
(* Initial states.                                                         *)

\* No get_minimax_access_token call has been made.
OAuthIdle ==
    /\ now = 0
    /\ obtained_at = 0
    /\ pc = "idle"
    /\ call = NoCall
    /\ login = NoLogin
    /\ prev = NoPrev
    /\ pkce = 0
    /\ grants = 0
    /\ disk = NoDisk

\* No start() call has been made.
FeishuIdle ==
    /\ app_configured = TRUE
    /\ lark_installed = TRUE
    /\ running = FALSE
    /\ api_client = FALSE
    /\ threads = <<>>
    /\ ready = <<>>
    /\ submitted = <<>>
    /\ started = <<>>
    /\ dropped = {}
    /\ last_start = NoStart
    /\ out = NoSend

----------------------------------------------------------------------------
(* Specifications.                                                         *)

InitFeishu ==
    /\ OAuthIdle
    /\ token_file = <<>>
    /\ app_configured \in BOOLEAN
    /\ lark_installed \in BOOLEAN
    /\ running = FALSE
    /\ api_client = FALSE
    /\ threads = <<>>
    /\ ready = <<>>
    /\ submitted = <<>>
    /\ started = <<>>
    /\ dropped = {}
    /\ last_start = NoStart
    /\ out = NoSend

NextFeishu ==
    \/ Start
    \/ Stop
    \/ \E i \in 1..Len(threads) : ThreadConnect(i)
    \/ \E i \in 1..Len(threads) : ThreadFail(i)
    \/ \E i \in 1..Len(threads) : \E e \in RawEvents : CallbackBegin(i, e)
    \/ \E i \in 1..Len(threads) : \E ok \in BOOLEAN : CallbackDownload(i, ok)
    \/ \E i \in 1..Len(threads) : CallbackDispatch(i)
    \/ LoopRunNext

SpecFeishu == InitFeishu /\ [][NextFeishu]_vars

\* The adapter's send() next to start() and stop().
NextSend ==
    \/ Start
    \/ Stop
    \/ \E msg \in OutboundMessages : SendBegin(msg)
    \/ \E result \in Results : TextReturns(result)
    \/ \E present \in BOOLEAN : MediaItemBegin(present)
    \/ \E result \in Results : UploadReturns(result)
    \/ \E result \in Results : CreateReturns(result)

SpecSend == InitFeishu /\ [][NextSend]_vars

InitOAuth ==
    /\ FeishuIdle
    /\ OAuthIdle
    /\ token_file \in InitialFiles

NextOAuth ==
    \/ \E force_refresh \in BOOLEAN : GetAccessToken(force_refresh)
    \/ \E expired_in \in Lifetimes : RefreshSucceeds(expired_in)
    \/ RefreshFails
    \/ LoginCodeFails
    \/ \E expires_in \in ExpiresInOpt : \E interval \in IntervalOpt :
          LoginCodeArrives(expires_in, interval)
    \/ \E status \in {"success", "error", "pending"} :
          \E expired_in \in Lifetimes : PollOnce(status, expired_in)
    \/ LoginTimeout
    \/ Tick

SpecOAuth == InitOAuth /\ [][NextOAuth]_vars

\* One device-flow login, entered from a first get_minimax_access_token()
\* without a credential file, with a clock that advances at every poll and
\* a provider that may answer "pending" for ever.
InitLogin ==
    /\ FeishuIdle
    /\ OAuthIdle
    /\ token_file = <<>>

FirstCall ==
    /\ call.n = 0
    /\ GetAccessToken(FALSE)

NextLogin ==
    \/ FirstCall
    \/ LoginCodeFails
    \/ \E expires_in \in ExpiresInOpt : \E interval \in IntervalOpt :
          LoginCodeArrives(expires_in, interval)
    \/ \E status \in {"success", "error", "pending"} :
          \E expired_in \in Lifetimes : PollOnceLate(status, expired_in)
    \/ LoginTimeout

\* Fairness: login_minimax is a coroutine of a running event loop, and every
\* HTTP call and every sleep it awaits returns; so whenever it has a next
\* step, it takes one.
SpecLoginLive == InitLogin /\ [][NextLogin]_vars /\ WF_vars(NextLogin)

\* The token manager with the writes of TOKEN_FILE taken step by step.
NextOAuthDisk ==
    \/ \E force_refresh \in BOOLEAN : GetAccessToken(force_refresh)
    \/ \E expired_in \in Lifetimes : RefreshOpensFile(expired_in)
    \/ RefreshFails
    \/ LoginCodeFails
    \/ \E expires_in \in ExpiresInOpt : \E interval \in IntervalOpt :
          LoginCodeArrives(expires_in, interval)
    \/ \E status \in {"error", "pending"} :
          \E expired_in \in Lifetimes : PollOnce(status, expired_in)
    \/ \E expired_in \in Lifetimes : PollOpensFile(expired_in)
    \/ WriteCloses
    \/ WriteFails
    \/ ProcessKilled
    \/ LoginTimeout
    \/ Tick

SpecOAuthDisk == InitOAuth /\ [][NextOAuthDisk]_vars

----------------------------------------------------------------------------
(* Properties.                                                             *)

PerConn(s, c) == SelectSeq(s, LAMBDA m : m.conn = c)
IsPrefix(a, b) == Len(a) <= Len(b) /\ \A i \in 1..Len(a) : a[i] = b[i]
Range(s) == {s[i] : i \in 1..Len(s)}

\* C1: on each connection the handle_message calls are submitted to the
\* application loop in the order their raw callbacks fired (seq is the firing
\* order), and the loop starts them in the order they were submitted.
C1_InboundOrder ==
    \A c \in 1..Len(threads) :
        LET sub == PerConn(submitted, c)
        IN /\ \A i, j \in 1..Len(sub) : i < j => sub[i].seq < sub[j].seq
           /\ IsPrefix(PerConn(started, c), sub)

\* Two events of one connection, the first with a downloaded resource, have
\* both been started by the application loop.
C1_Witness ==
    \E c \in 1..Len(threads) :
        LET st == PerConn(started, c)
        IN Len(st) >= 2 /\ st[1].media # <<>>

\* C2: no handle_message call is ever submitted, queued or started for an
\* event whose sender is_allowed refuses, and a refused event leaves no call.
C2_UnauthorizedNeverForwarded ==
    /\ \A m \in Range(submitted) \cup Range(ready) \cup Range(started) :
           is_allowed(m.sender_id)
    /\ \A d \in dropped :
           \A m \in Range(submitted) \cup Range(ready) \cup Range(started) :
               ~(m.conn = d.conn /\ m.seq = d.seq)

\* An event of a refused sender went through a successful download and was
\* refused, and an event that needed no download was refused as well.
C2_Witness ==
    /\ \E d \in dropped : d.downloaded /\ ~is_allowed(d.sender_id)
    /\ \E d \in dropped : ~d.downloaded /\ ~is_allowed(d.sender_id)

\* The stored credential was granted at obtained_before with lifetime
\* expires; these compare the time of the call with its absolute expiry.
StoredAtCall == call.file_before[1]
AbsoluteExpiry == call.obtained_before + StoredAtCall.expires * Second
StoredValidAtCall ==
    call.file_before # <<>> /\ call.at < AbsoluteExpiry - Skew * Second
StoredExpiredAtCall ==
    call.file_before # <<>> /\ call.at >= AbsoluteExpiry - Skew * Second

\* C3: a get_access_token(force_refresh=false) call made at or after
\* t0 + L - 60, for a stored credential granted at t0 with lifetime L,
\* issues a refresh call instead of returning the stored access token.
C3_ExpiredTokenIsRefreshed ==
    (call.n > 0 /\ ~call.force /\ StoredExpiredAtCall)
        => /\ call.refreshes = 1
           /\ call.refresh_sent =
                  <<[refresh_token |-> StoredAtCall.refresh,
                     region |-> region_of(StoredAtCall)]>>

\* C4: with a credential stored, get_access_token(force_refresh=true) issues
\* a refresh call with the stored refresh token, and starts a login only
\* after that refresh failed.
C4_ForceRefreshRefreshes ==
    (call.n > 0 /\ call.force /\ call.file_before # <<>>)
        => /\ call.refreshes = 1
           /\ call.refresh_sent =
                  <<[refresh_token |-> StoredAtCall.refresh,
                     region |-> region_of(StoredAtCall)]>>
           /\ call.logins = 1 => call.refresh_result = "failed"

\* C5: a get_access_token(force_refresh=false) call that follows a
\* successful one and finds the stored token valid returns the same access
\* string, makes no network request and leaves the credential file as it was.
C5_ValidTokenIdempotent ==
    (/\ call.n >= 2 /\ ~call.force /\ ~prev.force
     /\ prev.outcome = "returned" /\ StoredValidAtCall)
        => /\ call.outcome = "returned"
           /\ call.returned = prev.returned
           /\ call.requests = 0 /\ call.refreshes = 0 /\ call.logins = 0
           /\ token_file = call.file_before

\* A second call found the stored token valid some time after it was granted.
C5_Witness ==
    /\ call.n >= 2 /\ ~call.force /\ ~prev.force
    /\ prev.outcome = "returned" /\ StoredValidAtCall
    /\ call.at > call.obtained_before

\* C6: when the refresh call of get_access_token fails, the same call goes
\* on to a device-flow login, and it raises only if that login fails (the
\* code request refused, a provider error, or the timeout).
C6_RefreshFailureFallsBack ==
    call.refresh_result = "failed"
        => /\ call.logins = 1
           /\ call.outcome \in {"running", "returned", "raised"}
           /\ call.outcome = "running" =>
                  pc \in {"login_code", "poll"} /\ login.outcome \in {"code", "polling"}
           /\ call.outcome = "returned" =>
                  login.outcome = "success" /\ call.returned = <<login.result[1].access>>
           /\ call.outcome = "raised" =>
                  /\ login.outcome \in {"code_failed", "error", "timeout"}
                  /\ call.error = login.error

\* After a failed refresh the login succeeded and the call returned.
C6_Witness ==
    /\ call.refresh_result = "failed"
    /\ call.outcome = "returned"

\* C7: one get_access_token call sends at most one refresh request and
\* starts at most one device-flow login; its only other requests are the
\* polls of that login.
C7_AtMostOneRefreshOneLogin ==
    /\ call.refreshes <= 1
    /\ call.logins <= 1
    /\ call.requests =
           call.refreshes + call.logins + (IF call.logins = 1 THEN login.polls ELSE 0)

\* A call that made both its refresh and its login, and returned.
C7_Witness ==
    /\ call.refreshes = 1 /\ call.logins = 1
    /\ call.outcome = "returned"

\* C8: after a successful refresh the credential file holds the access
\* token, refresh token and expiry of the refresh answer with the region it
\* had, and the call returns the access token it wrote.
C8_RefreshPersistsAndReturns ==
    call.refresh_result = "ok"
        => LET result == call.refresh_resp[1]
           IN /\ token_file =
                     <<[access |-> result.access_token,
                        refresh |-> result.refresh_token,
                        expires |-> result.expired_in,
                        region |-> StoredAtCall.region]>>
              /\ call.outcome = "returned"
              /\ call.returned = <<token_file[1].access>>
              /\ call.logins = 0

\* A refresh of a "global" credential succeeded with a new lifetime.
C8_Witness ==
    /\ call.refresh_result = "ok"
    /\ StoredAtCall.region = "global"
    /\ call.refresh_resp[1].expired_in # StoredAtCall.expires

Terminal(status) == status \in {"success", "error"}

\* What holds of the poll loop whatever a pending answer leads to: no poll
\* follows a success or an error answer; success returns the answer's tokens
\* with the requested region; error raises with the provider's message.
PollAnswersAreTerminal ==
    LET r == login.responses
    IN /\ Len(r) = login.polls
       /\ \A i \in 1..(Len(r) - 1) : ~Terminal(r[i])
       /\ (r # <<>> /\ Last(r) = "success") =>
              /\ login.outcome = "success"
              /\ login.result =
                     <<[access |-> login.last[1].access_token,
                        refresh |-> login.last[1].refresh_token,
                        expires |-> login.last[1].expired_in,
                        region |-> login.region]>>
       /\ (r # <<>> /\ Last(r) = "error") =>
              /\ login.outcome = "error"
              /\ login.error = <<"OAuth failed", login.last[1].message>>
       /\ login.outcome = "success" => (r # <<>> /\ Last(r) = "success")
       /\ login.outcome = "error" => (r # <<>> /\ Last(r) = "error")

ThreePendingThenSuccess == <<"pending", "pending", "pending", "success">>

\* C9 as stated: success and error are terminal, and every other answer
\* leads to another sleep-then-poll pass, so that the login never ends on a
\* pending answer.
C9_PendingAlwaysPollsAgain ==
    /\ PollAnswersAreTerminal
    /\ (login.responses # <<>> /\ ~Terminal(Last(login.responses)))
           => login.outcome = "polling"

\* C9, amended: success and error are terminal; any other answer leads to
\* another sleep-then-poll pass while the deadline has not been reached at
\* the loop test, and to the timeout failure once it has; three pending
\* answers and a success received make four polls and a successful login.
C9_PollLoop ==
    /\ PollAnswersAreTerminal
    /\ (login.responses # <<>> /\ ~Terminal(Last(login.responses)))
           => /\ login.outcome \in {"polling", "timeout"}
              /\ now < login.expire_time => login.outcome = "polling"
              /\ login.outcome = "timeout" => now >= login.expire_time
              /\ (login.outcome = "polling" /\ now < login.expire_time) =>
                     pc = "poll"
    /\ login.responses = ThreePendingThenSuccess =>
           login.polls = 4 /\ login.outcome = "success"

\* Three pending answers and then a success were received.
C9_Witness ==
    /\ login.responses = ThreePendingThenSuccess
    /\ login.outcome = "success"
    /\ call.outcome = "returned"

\* Each sleep interval of one login is min(previous * 1.5, 10).
IntervalsFollowBackoff ==
    \A i \in 1..(Len(login.sleeps) - 1) :
        2 * login.sleeps[i + 1] =
            Min(3 * login.sleeps[i], 2 * MaxInterval * Second)

IntervalsNeverDecrease ==
    \A i \in 1..(Len(login.sleeps) - 1) : login.sleeps[i] <= login.sleeps[i + 1]

\* C10 as stated: for every initial interval, each successive sleep interval
\* is min(previous * 1.5, 10) and the intervals never decrease.
C10_BackoffNeverDecreases ==
    /\ IntervalsFollowBackoff
    /\ IntervalsNeverDecrease

\* C10, amended: for every initial interval, each successive sleep interval
\* is min(previous * 1.5, 10); the intervals never decrease when the initial
\* interval lies between 0 and 10 seconds.
C10_Backoff ==
    /\ IntervalsFollowBackoff
    /\ (login.sleeps # <<>> /\ 0 <= login.sleeps[1]
        /\ login.sleeps[1] <= MaxInterval * Second) => IntervalsNeverDecrease

\* A login that started at 8 seconds slept 8, 10 and 10 seconds: the
\* interval grew to the cap and stayed there.
C10_Witness ==
    login.sleeps = <<8 * Second, MaxInterval * Second, MaxInterval * Second>>

----------------------------------------------------------------------------
(* C11: the credential file is never found partially written.              *)

\* The record a reader of TOKEN_FILE finds is the one the running call found
\* (the previous record) or the one it was granted (the new record).
PreviousOrNewRecord ==
    \/ token_file = call.file_before
    \/ call.refresh_resp # <<>> /\ token_file # <<>>
           /\ token_file[1].access = call.refresh_resp[1].access_token
    \/ login.result # <<>> /\ token_file = login.result

\* C11: at every point at which TOKEN_FILE can be read - by another reader
\* while get_minimax_access_token writes it, or after a failed or
\* interrupted write - it holds the whole previous record or the whole new
\* one, never an empty or truncated one.
C11_FileNeverPartial ==
    /\ ~disk.truncated
    /\ call.n > 0 => PreviousOrNewRecord

----------------------------------------------------------------------------
(* C12: a message without content and without media.                       *)

\* C12: a send() of an OutboundMessage whose content is empty and whose
\* media list is empty makes no vendor network call, with or without an
\* API client, and is over at once.
C12_EmptyMessageNoVendorCall ==
    (out.msg.content = "" /\ out.msg.media = <<>>) =>
        /\ out.log = <<>>
        /\ out.pc \in {"idle", "done"}

\* An empty message went through send() of a started adapter.
C12_Witness ==
    /\ out.pc = "done"
    /\ out.client
    /\ out.msg.content = ""
    /\ out.msg.media = <<>>
    /\ out.log = <<>>

----------------------------------------------------------------------------
(* C13: the vendor calls of one send() are sequential and ordered.         *)

\* Every call returns before the next is handed out.
OneAtATime(log) ==
    \A j \in 1..Len(log) :
        IF j % 2 = 1
        THEN log[j].ev = "start"
        ELSE /\ log[j].ev = "end"
             /\ log[j].op = log[j - 1].op
             /\ log[j].item = log[j - 1].item

\* The text (item 0) comes first, the media items in list order, and for
\* each item its upload before its message.create.
InListOrder(log) ==
    \A i, j \in 1..Len(log) :
        i < j =>
            /\ log[i].item <= log[j].item
            /\ (log[i].item = log[j].item /\ log[i].item > 0
                    /\ log[i].op = "message.create")
                   => log[j].op = "message.create"

\* C13: within one send() the vendor calls are strictly sequential: the text
\* send returns before any media work starts, the upload and the
\* message.create of item i return before the upload of item j > i starts,
\* and the uploaded media are delivered in list order.
C13_SendSequential ==
    /\ OneAtATime(out.log)
    /\ InListOrder(out.log)

\* A text and two media items were all delivered: five calls, in order.
C13_Witness ==
    /\ out.pc = "done"
    /\ Len(out.log) = 10
    /\ \A j \in 1..10 : out.log[j].ev = "end" => out.log[j].result = "success"
    /\ out.log[1].item = 0 /\ out.log[3].item = 1 /\ out.log[7].item = 2

----------------------------------------------------------------------------
(* C14: the items of one send() are independent and send() never raises.   *)

\* The calls made for media item `item`.
CallsFor(log, item) ==
    SelectSeq(log, LAMBDA e : e.item = item /\ e.ev = "start")

\* C14: send() never raises; once it is over, with an API client, every
\* media item has been attempted exactly once and in turn, whatever became
\* of the text send and of the items before it; no call is made twice.
C14_ItemsIndependent ==
    /\ ~out.raised
    /\ (out.pc = "done" /\ out.client) =>
           out.attempted = [k \in 1..Len(out.msg.media) |-> k]
    /\ \A item \in 0..Len(out.msg.media) : Len(CallsFor(out.log, item)) <= 2
    /\ \A item \in 0..Len(out.msg.media) :
           \A i, j \in 1..Len(CallsFor(out.log, item)) :
               i < j => CallsFor(out.log, item)[i].op # CallsFor(out.log, item)[j].op

\* The text send threw, the first item's message.create threw, and the
\* second item was still uploaded and delivered.
C14_Witness ==
    /\ out.pc = "done"
    /\ Len(out.msg.media) = 2
    /\ Len(out.log) = 10
    /\ out.log[2].result = "raised"
    /\ out.log[6].result = "raised"
    /\ out.log[10].result = "success"
    /\ out.log[10].item = 2

----------------------------------------------------------------------------
(* C15: worker threads and start().                                        *)

\* The worker threads that have not left run_client.
LiveThreads == {i \in 1..Len(threads) : threads[i].pc # "exited"}

\* What start() does each time it is called: one thread per call that
\* returns True, none otherwise, and it returns while the thread is still
\* at the top of run_client.
StartSpawnsOneAndReturns ==
    /\ last_start.returned = "True" =>
           last_start.spawned = 1 /\ ~last_start.waited
    /\ last_start.returned # "True" => last_start.spawned = 0
    /\ Len(threads) = last_start.ok

\* C15 as stated: after any sequence of start() and stop() calls the adapter
\* has at most one live worker thread; each successful start() spawns
\* exactly one and returns as soon as it is launched.
C15_AtMostOneLiveThread ==
    /\ Cardinality(LiveThreads) <= 1
    /\ StartSpawnsOneAndReturns

\* C15, amended: each successful start() spawns exactly one worker thread
\* and returns without waiting for it, so the live worker threads are at
\* most as many as the start() calls that succeeded; stop() ends none.
C15_OneThreadPerStart ==
    /\ Cardinality(LiveThreads) <= last_start.ok
    /\ StartSpawnsOneAndReturns

\* Two start() calls succeeded and both threads live on after a stop().
C15_Witness ==
    /\ last_start.ok = 2
    /\ Cardinality(LiveThreads) = 2
    /\ ~running

----------------------------------------------------------------------------
(* C16: an exception inside the worker thread.                             *)

\* A step in which a worker thread ends leaves the running flag false, hands
\* nothing to the application loop and starts no thread; a thread that has
\* ended stays ended.
ThreadEndsContained ==
    \A i \in 1..Len(threads) :
        /\ (threads[i].pc # "exited" /\ threads'[i].pc = "exited") =>
               /\ running' = FALSE
               /\ ready' = ready
               /\ submitted' = submitted
               /\ Len(threads') = Len(threads)
        /\ threads[i].pc = "exited" => threads'[i].pc = "exited"

\* A step that adds a thread adds one, and is a start() call that succeeds.
ThreadsOnlyFromStart ==
    Len(threads') # Len(threads) =>
        /\ Len(threads') = Len(threads) + 1
        /\ last_start'.ok = last_start.ok + 1

\* C16: when a worker thread ends on an exception, the running flag is
\* false afterwards and nothing is handed to the application loop; a thread
\* that has ended stays ended, and a thread appears only when a start()
\* call succeeds.
C16_WorkerFailureContained ==
    [][ThreadEndsContained /\ ThreadsOnlyFromStart]_vars

\* A started adapter whose worker thread has ended on an exception.
C16_Witness ==
    /\ Len(threads) = 1
    /\ threads[1].pc = "exited"
    /\ ~running
    /\ api_client
    /\ last_start.returned = "True"

----------------------------------------------------------------------------
(* C17: where the media download runs.                                     *)

\* C17: the download of an event's resource does not run on the transport's
\* worker thread: no worker thread is ever inside _download_file.
C17_DownloadOffTransportThread ==
    \A i \in 1..Len(threads) : threads[i].pc # "download"

----------------------------------------------------------------------------
(* C18: start() without credentials.                                       *)

\* C18: without app id or app secret every start() returns False and does
\* nothing else: no API client, no thread, running flag not set.
C18_MissingCredentialsNoEffect ==
    ~app_configured =>
        /\ last_start.returned \in {"none", "False"}
        /\ last_start.spawned = 0
        /\ ~api_client
        /\ threads = <<>>
        /\ ~running

\* start() was called on an adapter without credentials, lark_oapi present.
C18_Witness ==
    /\ ~app_configured
    /\ lark_installed
    /\ last_start.returned = "False"
    /\ ~api_client
    /\ threads = <<>>

----------------------------------------------------------------------------
(* C19: every device-flow login ends.                                      *)

LoginOutcomes == {"success", "error", "timeout"}

\* C19: a login that has begun to poll ends - by a success result, by a
\* provider error or by the timeout; its outcome, once there, stays; and
\* the timeout is raised only when the deadline start + expires_in has been
\* reached, every poll before it having been answered "pending".
C19_LoginTerminates ==
    /\ (login.outcome = "polling") ~> (login.outcome \in LoginOutcomes)
    /\ [][login.outcome \in LoginOutcomes => login'.outcome = login.outcome]_vars
    /\ [](login.outcome = "timeout" =>
             /\ now >= login.expire_time
             /\ \A i \in 1..Len(login.responses) :
                    login.responses[i] = "pending")

\* The provider answered "pending" all through the default 300 seconds and
\* the login ended by the timeout.
C19_Witness ==
    /\ login.outcome = "timeout"
    /\ login.expire_time - login.start = DefaultExpiresIn * Second
    /\ Len(login.responses) >= 10
    /\ \A i \in 1..Len(login.responses) : login.responses[i] = "pending"

----------------------------------------------------------------------------
(* C20: polls and the deadline.                                            *)

\* C20: every poll is sent at a time before the deadline start + expires_in,
\* so no login succeeds by a poll made at or after it.
C20_NoPollAfterDeadline ==
    \A i \in 1..Len(login.poll_times) :
        login.poll_times[i] < login.expire_time

----------------------------------------------------------------------------
(* C21: the PKCE pair of one login.                                        *)

\* C21: in a login that has polled, the verifier the polls carry as
\* code_verifier (minimax.py 94 -> 74: login_minimax's `verifier`) is the
\* one whose SHA-256 digest the /oauth/code request of the same login
\* carried as code_challenge.
C21_VerifierMatchesChallenge ==
    login.polls > 0 => Sha256(login.verifier[1]) = login.challenge[1]

----------------------------------------------------------------------------
(* C22: the region of a stored credential.                                 *)

\* C22: a call that finds a stored credential of region r and is not forced
\* past it sends its refresh to region r, makes the login it falls back to
\* in region r, and leaves a record of region r in TOKEN_FILE.
C22_RegionNeverChanges ==
    (call.file_before # <<>> /\ ~call.force) =>
        /\ call.refresh_sent # <<>> =>
               call.refresh_sent[1].region = region_of(StoredAtCall)
        /\ call.logins > 0 => login.region = region_of(StoredAtCall)
        /\ token_file # <<>> =>
               region_of(token_file[1]) = region_of(StoredAtCall)

====
